---- MODULE Spec2Model ----
(***************************************************************************)
(* Model of the chaoschain consensus manager                               *)
(* (crates/consensus/src/manager.rs): the voting-round state kept behind   *)
(* an RwLock, the mpsc mailbox, the actor task that applies one message at *)
(* a time, and the public methods that callers run concurrently; and of    *)
(* the mempool (crates/core/src/mempool.rs): the table of transactions by  *)
(* content hash and the BinaryHeap that orders them.                       *)
(***************************************************************************)
EXTENDS Integers, Sequences, FiniteSets, TLC

\* ------------------------------------------------------------------ bounds

\* Messages the mailbox holds in the model (the channel's capacity is 100).
MaxMailbox == 1
\* Callers that may sit between the state check and the send of
\* start_voting_round at the same time.
MaxStarting == 1
\* Reasons the feedback store holds in the model, over all producers.
MaxFeedback == 2

\* ------------------------------------------------------------------ inputs

Agents == {"v1", "v2", "v3"}
\* Tasks that call the manager and await its responses.
Callers == {"c1", "c2"}
\* Threads that call one mempool.
Threads == {"t1", "t2"}
Producers == {"p1", "p2"}
Reasons == {"r1", "r2"}
\* Reasons carried by votes (the manager never reads a vote's reason).
VoteReasons == {"r1"}
\* Stake values validators supply with their votes.
Stakes == {100, 200}
\* (total_stake, finality_threshold in hundredths) of ConsensusManager::new.
Configs == {<<300, 67>>}
\* Each validator supplies its own fixed stake with every vote it casts
\* (Validator::stake); the profile is an input of the run: all validators
\* alike, or one validator with a larger stake than the others.
StakeProfiles ==
  {[a \in Agents |-> 100], [a \in Agents |-> IF a = "v1" THEN 200 ELSE 100]}

\* Entries the BinaryHeap holds in the model.
MaxQueue == 4

\* Messages queued in the channel while a caller's requests follow each
\* other.
MaxPending == 2

\* u64::MAX, scaled to the widest integer the checker computes with.
U64_MAX == 2147483647

\* ------------------------------------------------------------ data model

\* Block (crates/core/src/lib.rs); byte strings are sequences.
Block1 ==
  [parent_hash |-> <<0>>, height |-> 1, transactions |-> <<>>,
   state_root |-> <<0>>, proposer_sig |-> <<0>>, drama_level |-> 0,
   producer_mood |-> <<"m">>, producer_id |-> "p1"]

Block2 ==
  [parent_hash |-> <<0>>, height |-> 2, transactions |-> <<>>,
   state_root |-> <<0>>, proposer_sig |-> <<0>>, drama_level |-> 0,
   producer_mood |-> <<"m">>, producer_id |-> "p2"]

Blocks == {Block1, Block2}

RECURSIVE TxBytes(_)
\* The bytes Block::hash feeds to the hasher for the transactions, in order.
TxBytes(txs) ==
  IF txs = <<>> THEN <<>>
  ELSE LET tx == Head(txs)
       IN  tx.sender \o <<tx.nonce>> \o tx.payload \o tx.signature
             \o TxBytes(Tail(txs))

\* Block::hash: SHA-256 over height, the transactions, proposer_sig,
\* drama_level and producer_mood; the digest is modelled by its input.
Hash(b) ==
  <<b.height>> \o TxBytes(b.transactions) \o b.proposer_sig
    \o <<b.drama_level>> \o b.producer_mood

Hashes == {Hash(b) : b \in Blocks}

\* Vote (crates/consensus/src/lib.rs); meme_url and signature are never read
\* by the manager and are left out.
Votes ==
  [agent_id : Agents, block_hash : Hashes, approve : BOOLEAN,
   reason : VoteReasons]

\* Result<_, Error> values.
OkUnit == <<"Ok">>
OkTrue == <<"Ok", "true">>
OkFalse == <<"Ok", "false">>
ErrInsufficientStake == <<"Err", "InsufficientStake">>
ErrNoActiveRound == <<"Err", "Internal", "No active voting round">>
ErrWrongBlock == <<"Err", "Internal", "Vote for wrong block">>
ErrRoundActive ==
  <<"Err", "Internal",
    "Cannot start new voting round while previous round is active">>

\* ------------------------------------------------------------------ state

VARIABLES
  current_block,       \* ConsensusState.current_block: <<>> or <<block>>
  votes,               \* ConsensusState.votes: agent_id -> Vote
  voting_state,        \* ConsensusState.voting_state
  validator_feedback,  \* ConsensusState.validator_feedback: producer -> reasons
  total_stake,         \* ConsensusManager.total_stake
  finality_threshold,  \* ConsensusManager.finality_threshold, in hundredths
  mailbox,             \* the mpsc channel, oldest message first
  starting,            \* block -> callers of start_voting_round past the check
  stake_of,            \* the stake each validator supplies with its votes
  out,                 \* the call or message the step just taken completed,
                       \* and what it returned
  tally,               \* approve_stake and reject_stake of the step just taken
  pre_state,           \* voting_state before the step just taken
  open_start,          \* a start_voting_round returned Ok and no verdict since
  pos,                 \* votes of ExampleVotes the round has received in order
  resp,                \* the oneshot senders of the queued requests, oldest
                       \* first: the caller each one answers
  calls,               \* caller -> "idle", "waiting" for the response of its
                       \* request, "answered" once, or answered "twice"
  mempool_txs,         \* Mempool.txs: content hash -> MempoolTx
  queue,               \* Mempool.queue: the BinaryHeap's array, root first
  max_size,            \* Mempool.max_size
  mempool_out,         \* the Mempool call the step just taken completed, and
                       \* what it returned
  retry,               \* the add_tx refused for capacity, while the calls
                       \* after it free a slot and repeat it
  txs_lock,            \* the RwLock of Mempool.txs: its writer and readers
  queue_lock,          \* the RwLock of Mempool.queue
  th,                  \* thread -> the Mempool call it runs and where it is
  committed,           \* the table and the heap as the last completed
                       \* add_tx or remove_included left them
  session              \* the block of the last start_voting_round that
                       \* returned Ok, and how far its caller's next request
                       \* has come

state_vars == <<current_block, votes, voting_state, validator_feedback>>
config_vars == <<total_stake, finality_threshold, stake_of>>
vars ==
  <<current_block, votes, voting_state, validator_feedback, total_stake,
    finality_threshold, mailbox, starting, stake_of, out, tally, pre_state,
    open_start, pos, resp, calls, mempool_txs, queue, max_size, mempool_out,
    retry, txs_lock, queue_lock, th, committed, session>>
\* The callers' side of the oneshot response channels.
call_vars == <<resp, calls, session>>
mempool_vars == <<mempool_txs, queue, max_size, mempool_out, retry>>
\* The threads that call one mempool concurrently, and its locks.
thread_vars == <<txs_lock, queue_lock, th, committed>>
manager_vars ==
  <<state_vars, config_vars, mailbox, starting, out, tally, pre_state,
    open_start, pos, call_vars>>

NoOut == [op |-> "none", arg |-> <<>>, result |-> <<>>]
NoRetry == [sub |-> <<>>, stage |-> "none"]
Unlocked == [writer |-> "none", readers |-> {}]
Idle == [pc |-> "idle", op |-> "none", arg |-> <<>>, rest |-> <<>>]
NoSession == [block |-> <<>>, stage |-> "none", at |-> 0]
NoTally == <<>>
EmptyMap == <<>>

\* Mempool::new(n).
MempoolNew(n) ==
  /\ mempool_txs = EmptyMap
  /\ queue = <<>>
  /\ max_size = n
  /\ mempool_out = NoOut
  /\ retry = NoRetry
  /\ txs_lock = Unlocked
  /\ queue_lock = Unlocked
  /\ th = [t \in Threads |-> Idle]
  /\ committed = [mempool_txs |-> EmptyMap, queue |-> <<>>]

\* ConsensusState::new and ConsensusManager::new, beside an empty mempool.
Init ==
  /\ current_block = <<>>
  /\ votes = EmptyMap
  /\ voting_state = "Inactive"
  /\ validator_feedback = EmptyMap
  /\ \E c \in Configs : total_stake = c[1] /\ finality_threshold = c[2]
  /\ mailbox = <<>>
  /\ starting = [b \in Blocks |-> 0]
  /\ stake_of \in StakeProfiles
  /\ out = NoOut
  /\ tally = NoTally
  /\ pre_state = "Inactive"
  /\ open_start = FALSE
  /\ pos = 0
  /\ resp = <<>>
  /\ calls = [c \in Callers |-> "idle"]
  /\ session = NoSession
  /\ \E n \in {3} : MempoolNew(n)

\* ---------------------------------------------------------------- helpers

\* HashMap::insert with or_insert semantics: an existing entry is kept.
MapInsert_KeepFirst(m, k, v) ==
  [x \in (DOMAIN m) \cup {k} |-> IF x \in DOMAIN m THEN m[x] ELSE v]

\* HashMap::insert: the entry of key k is v afterwards, whatever it was.
MapInsert(m, k, v) ==
  [x \in (DOMAIN m) \cup {k} |-> IF x = k THEN v ELSE m[x]]

\* HashMap::remove.
MapRemove(m, k) == [x \in (DOMAIN m) \ {k} |-> m[x]]

\* u64::wrapping_add.
SatAdd_Wrapping(a, b) ==
  IF a > U64_MAX - b THEN a - (U64_MAX - b) - 1 ELSE a + b

\* u64::saturating_add.
SatAdd(a, b) == IF a > U64_MAX - b THEN U64_MAX ELSE a + b

RECURSIVE SatTimes(_, _)
\* n saturating additions of stake to 0.
SatTimes(n, stake) == IF n = 0 THEN 0 ELSE SatAdd(SatTimes(n - 1, stake), stake)

\* The loop over state.votes.values(): every recorded approving vote adds the
\* stake of the call being processed.
ApproveStake(vs, stake) ==
  SatTimes(Cardinality({a \in DOMAIN vs : vs[a].approve}), stake)

\* The same loop's other branch.
RejectStake(vs, stake) ==
  SatTimes(Cardinality({a \in DOMAIN vs : ~vs[a].approve}), stake)

\* The threshold taken one above the truncated product.
ThresholdStake_Above(total, threshold) ==
  (total \div 100) * threshold + ((total % 100) * threshold) \div 100 + 1

\* (total_stake as f64 * finality_threshold) as u64, the threshold in
\* hundredths: the truncated product, computed by hundreds of total so that
\* no intermediate value passes U64_MAX; f64 represents the product of the
\* configurations used closely enough to truncate to the same integer.
ThresholdStake(total, threshold) ==
  (total \div 100) * threshold + ((total % 100) * threshold) \div 100

TotalStarting == LET n1 == starting[Block1] n2 == starting[Block2] IN n1 + n2

FeedbackOf(p) ==
  IF p \in DOMAIN validator_feedback THEN validator_feedback[p] ELSE <<>>

FeedbackSize == Len(FeedbackOf("p1")) + Len(FeedbackOf("p2"))

\* A channel that hands the newest message out first.
Send_Front(msg) == mailbox' = <<msg>> \o mailbox

\* mpsc::Sender::send: the message joins the channel behind those queued.
Send(msg) == mailbox' = Append(mailbox, msg)

Msg(type, arg) == [type |-> type, arg |-> arg]

\* What the step completed and returned, with the tallies it computed.
Event(op, arg, result, t) ==
  /\ out' = [op |-> op, arg |-> arg, result |-> result]
  /\ tally' = t
  /\ pre_state' = voting_state

NoEvent == Event("none", <<>>, <<>>, NoTally)

\* The votes of the worked example, in order: (agent_id, approve).
ExampleVotes ==
  << <<"v1", TRUE>>, <<"v2", TRUE>>, <<"v1", FALSE>>, <<"v3", TRUE>>,
     <<"v1", TRUE>> >>

\* How far the votes applied to the round so far follow ExampleVotes, for
\* total_stake 300, finality_threshold 0.67 and three validators of stake 100.
NextPos(p, vs, vote, recorded) ==
  LET applies == /\ recorded
                 /\ total_stake = 300 /\ finality_threshold = 67
                 /\ \A a \in Agents : stake_of[a] = 100
      IsVote(i) == <<vote.agent_id, vote.approve>> = ExampleVotes[i]
  IN  IF applies /\ p \in 1..4 /\ IsVote(p + 1) THEN p + 1
      ELSE IF applies /\ vs = EmptyMap /\ IsVote(1) THEN 1
      ELSE 0

\* ----------------------------------------------------------- public calls

\* start_voting_round, the state check finds a round Active: Err, nothing sent.
StartVotingRoundReject(b) ==
  /\ voting_state = "Active"
  /\ Event("start_voting_round", <<b>>, ErrRoundActive, NoTally)
  /\ UNCHANGED <<state_vars, config_vars, mailbox, starting, open_start, pos>>

\* The state check without its Active arm.
StartVotingRoundCheck_Unguarded(b) ==
  /\ TotalStarting < MaxStarting
  /\ starting' = [starting EXCEPT ![b] = @ + 1]
  /\ NoEvent
  /\ UNCHANGED <<state_vars, config_vars, mailbox, open_start, pos>>

\* start_voting_round, the state check finds Inactive or Completed.
StartVotingRoundCheck(b) ==
  /\ voting_state # "Active"
  /\ TotalStarting < MaxStarting
  /\ starting' = [starting EXCEPT ![b] = @ + 1]
  /\ NoEvent
  /\ UNCHANGED <<state_vars, config_vars, mailbox, open_start, pos>>

\* start_voting_round, the send of StartVoting(block): Ok once it is queued.
StartVotingRoundSend(b) ==
  /\ starting[b] > 0
  /\ Len(mailbox) < MaxMailbox
  /\ starting' = [starting EXCEPT ![b] = @ - 1]
  /\ Send(Msg("StartVoting", <<b>>))
  /\ Event("start_voting_round", <<b>>, OkUnit, NoTally)
  /\ open_start' = TRUE
  /\ UNCHANGED <<state_vars, config_vars, pos>>

\* add_vote: the send of Vote(vote, stake, resp); the caller awaits resp.
AddVoteSend(v) ==
  /\ Len(mailbox) < MaxMailbox
  /\ Send(Msg("Vote", <<v, stake_of[v.agent_id]>>))
  /\ NoEvent
  /\ UNCHANGED <<state_vars, config_vars, starting, open_start, pos>>

\* store_feedback: the send of StoreFeedback(producer_id, feedback).
StoreFeedbackSend(p, r) ==
  /\ Len(mailbox) < MaxMailbox
  /\ FeedbackSize < MaxFeedback
  /\ Send(Msg("StoreFeedback", <<p, r>>))
  /\ NoEvent
  /\ UNCHANGED <<state_vars, config_vars, starting, open_start, pos>>

\* get_and_clear_feedback: the send of GetAndClearFeedback(producer_id, resp).
GetAndClearFeedbackSend(p) ==
  /\ Len(mailbox) < MaxMailbox
  /\ Send(Msg("GetAndClearFeedback", <<p>>))
  /\ NoEvent
  /\ UNCHANGED <<state_vars, config_vars, starting, open_start, pos>>

\* ------------------------------------------------------------ actor task

\* ---------------------------------------------------------- read requests

\* get_current_block up to the send; the caller then awaits the response.
GetCurrentBlockSend ==
  /\ Len(mailbox) < MaxMailbox
  /\ Send(Msg("GetCurrentBlock", <<>>))
  /\ NoEvent
  /\ UNCHANGED <<state_vars, config_vars, starting, open_start, pos>>

\* get_votes up to the send; the caller then awaits the response.
GetVotesSend ==
  /\ Len(mailbox) < MaxMailbox
  /\ Send(Msg("GetVotes", <<>>))
  /\ NoEvent
  /\ UNCHANGED <<state_vars, config_vars, starting, open_start, pos>>

Receive(type) ==
  /\ mailbox # <<>>
  /\ Head(mailbox).type = type
  /\ mailbox' = Tail(mailbox)

\* StartVoting that installs the block and keeps the recorded votes.
\* A handler that resets the whole state for the new round, feedback too.
HandleStartVoting_ClearsFeedback ==
  /\ Receive("StartVoting")
  /\ current_block' = Head(mailbox).arg
  /\ votes' = EmptyMap
  /\ voting_state' = "Active"
  /\ validator_feedback' = EmptyMap
  /\ Event("StartVoting", Head(mailbox).arg, <<>>, NoTally)
  /\ pos' = 0
  /\ UNCHANGED <<config_vars, starting, open_start>>

HandleStartVoting_KeepVotes ==
  /\ Receive("StartVoting")
  /\ current_block' = Head(mailbox).arg
  /\ voting_state' = "Active"
  /\ Event("StartVoting", Head(mailbox).arg, <<>>, NoTally)
  /\ pos' = 0
  /\ UNCHANGED <<votes, validator_feedback, config_vars, starting, open_start>>

\* A handler whose effect depends on the callers that are about to send:
\* it keeps the recorded votes while another start_voting_round is under way.
HandleStartVoting_Racy ==
  /\ Receive("StartVoting")
  /\ current_block' = Head(mailbox).arg
  /\ votes' = IF TotalStarting > 0 THEN votes ELSE EmptyMap
  /\ voting_state' = "Active"
  /\ Event("StartVoting", Head(mailbox).arg, <<>>, NoTally)
  /\ pos' = 0
  /\ UNCHANGED <<validator_feedback, config_vars, starting, open_start>>

\* A handler that opens the round without installing the block.
HandleStartVoting_NoBlock ==
  /\ Receive("StartVoting")
  /\ votes' = EmptyMap
  /\ voting_state' = "Active"
  /\ Event("StartVoting", Head(mailbox).arg, <<>>, NoTally)
  /\ pos' = 0
  /\ UNCHANGED <<current_block, validator_feedback, config_vars, starting,
                 open_start>>

\* ConsensusMessage::StartVoting(block).
HandleStartVoting ==
  /\ Receive("StartVoting")
  /\ current_block' = Head(mailbox).arg
  /\ votes' = EmptyMap
  /\ voting_state' = "Active"
  /\ Event("StartVoting", Head(mailbox).arg, <<>>, NoTally)
  /\ pos' = 0
  /\ UNCHANGED <<validator_feedback, config_vars, starting, open_start>>

\* The checks of process_vote without the comparison of hashes.
CheckVote_AnyHash(st, blk, vote) ==
  IF st # "Active" THEN ErrNoActiveRound
  ELSE IF blk = <<>> THEN ErrNoActiveRound
  ELSE <<>>

\* The checks of process_vote with a round that still takes votes after it
\* was completed.
CheckVote_AfterCompletion(st, blk, vote) ==
  IF st = "Inactive" THEN ErrNoActiveRound
  ELSE IF blk = <<>> THEN ErrNoActiveRound
  ELSE IF vote.block_hash # Hash(blk[1]) THEN ErrWrongBlock
  ELSE <<>>

\* process_vote, the checks before the vote is recorded: the error, or <<>>.
CheckVote(st, blk, vote) ==
  IF st # "Active" THEN ErrNoActiveRound
  ELSE IF blk = <<>> THEN ErrNoActiveRound
  ELSE IF vote.block_hash # Hash(blk[1]) THEN ErrWrongBlock
  ELSE <<>>

\* The verdict with a failure that closes the round.
Decide_FailureResets(st, approve_stake, reject_stake, threshold_stake) ==
  IF approve_stake >= threshold_stake
  THEN [voting_state |-> "Completed", result |-> OkTrue]
  ELSE IF reject_stake >= threshold_stake
  THEN [voting_state |-> "Completed", result |-> OkFalse]
  ELSE [voting_state |-> "Inactive", result |-> ErrInsufficientStake]

\* The verdict with an approval that leaves the round open.
Decide_ApprovalStaysOpen(st, approve_stake, reject_stake, threshold_stake) ==
  IF approve_stake >= threshold_stake
  THEN [voting_state |-> st, result |-> OkTrue]
  ELSE IF reject_stake >= threshold_stake
  THEN [voting_state |-> "Completed", result |-> OkFalse]
  ELSE [voting_state |-> st, result |-> ErrInsufficientStake]

\* The verdict with a rejection that leaves the round open.
Decide_RejectionStaysOpen(st, approve_stake, reject_stake, threshold_stake) ==
  IF approve_stake >= threshold_stake
  THEN [voting_state |-> "Completed", result |-> OkTrue]
  ELSE IF reject_stake >= threshold_stake
  THEN [voting_state |-> st, result |-> OkFalse]
  ELSE [voting_state |-> st, result |-> ErrInsufficientStake]

\* The verdict with a round that ends on its first recorded vote.
Decide_AlwaysCompletes(st, approve_stake, reject_stake, threshold_stake) ==
  IF approve_stake >= threshold_stake
  THEN [voting_state |-> "Completed", result |-> OkTrue]
  ELSE IF reject_stake >= threshold_stake
  THEN [voting_state |-> "Completed", result |-> OkFalse]
  ELSE [voting_state |-> "Completed", result |-> ErrInsufficientStake]

\* process_vote, the comparison of the tallies with the threshold stake.
Decide(st, approve_stake, reject_stake, threshold_stake) ==
  IF approve_stake >= threshold_stake
  THEN [voting_state |-> "Completed", result |-> OkTrue]
  ELSE IF reject_stake >= threshold_stake
  THEN [voting_state |-> "Completed", result |-> OkFalse]
  ELSE [voting_state |-> st, result |-> ErrInsufficientStake]

\* process_vote with the insert into the vote map before the checks.
ProcessVote_RecordsFirst(vs, st, blk, vote, stake, total, threshold) ==
  LET err == CheckVote(st, blk, vote)
      vs2 == MapInsert(vs, vote.agent_id, vote)
  IN  IF err # <<>>
      THEN [votes |-> vs2, voting_state |-> st, result |-> err,
            tally |-> NoTally]
      ELSE LET approve_stake == ApproveStake(vs2, stake)
               reject_stake == RejectStake(vs2, stake)
               d == Decide(st, approve_stake, reject_stake,
                           ThresholdStake(total, threshold))
           IN  [votes |-> vs2, voting_state |-> d.voting_state,
                result |-> d.result,
                tally |-> <<approve_stake, reject_stake>>]

\* process_vote: the votes, the voting state, the result and the two tallies.
ProcessVote(vs, st, blk, vote, stake, total, threshold) ==
  LET err == CheckVote(st, blk, vote)
  IN  IF err # <<>>
      THEN [votes |-> vs, voting_state |-> st, result |-> err,
            tally |-> NoTally]
      ELSE LET vs2 == MapInsert(vs, vote.agent_id, vote)
               approve_stake == ApproveStake(vs2, stake)
               reject_stake == RejectStake(vs2, stake)
               d == Decide(st, approve_stake, reject_stake,
                           ThresholdStake(total, threshold))
           IN  [votes |-> vs2, voting_state |-> d.voting_state,
                result |-> d.result,
                tally |-> <<approve_stake, reject_stake>>]

\* ConsensusMessage::Vote(vote, stake, resp).
HandleVote ==
  /\ Receive("Vote")
  /\ LET vote == Head(mailbox).arg[1]
         stake == Head(mailbox).arg[2]
         r == ProcessVote(votes, voting_state, current_block, vote, stake,
                          total_stake, finality_threshold)
     IN  /\ votes' = r.votes
         /\ voting_state' = r.voting_state
         /\ Event("add_vote", <<vote, stake>>, r.result, r.tally)
         /\ open_start' = IF r.result[1] = "Ok" THEN FALSE ELSE open_start
         /\ pos' = NextPos(pos, votes, vote, r.tally # NoTally)
  /\ UNCHANGED <<current_block, validator_feedback, config_vars, starting>>

\* ConsensusMessage::StoreFeedback(producer_id, feedback).
\* A handler that puts the new reason in front of the stored ones.
HandleStoreFeedback_Prepend ==
  /\ Receive("StoreFeedback")
  /\ LET p == Head(mailbox).arg[1]
         r == Head(mailbox).arg[2]
     IN  /\ validator_feedback' =
              MapInsert(validator_feedback, p, <<r>> \o FeedbackOf(p))
         /\ Event("StoreFeedback", <<p, r>>, <<>>, NoTally)
  /\ UNCHANGED <<current_block, votes, voting_state, config_vars, starting,
                 open_start, pos>>

HandleStoreFeedback ==
  /\ Receive("StoreFeedback")
  /\ LET p == Head(mailbox).arg[1]
         r == Head(mailbox).arg[2]
     IN  /\ validator_feedback' =
              MapInsert(validator_feedback, p, Append(FeedbackOf(p), r))
         /\ Event("StoreFeedback", <<p, r>>, <<>>, NoTally)
  /\ UNCHANGED <<current_block, votes, voting_state, config_vars, starting,
                 open_start, pos>>

\* ConsensusMessage::GetAndClearFeedback(producer_id, resp).
HandleGetAndClearFeedback ==
  /\ Receive("GetAndClearFeedback")
  /\ LET p == Head(mailbox).arg[1]
     IN  /\ validator_feedback' = MapRemove(validator_feedback, p)
         /\ Event("get_and_clear_feedback", <<p>>, FeedbackOf(p), NoTally)
  /\ UNCHANGED <<current_block, votes, voting_state, config_vars, starting,
                 open_start, pos>>

\* A handler that takes the request and drops its sender without sending.
HandleGetCurrentBlock_NoReply ==
  /\ Receive("GetCurrentBlock")
  /\ NoEvent
  /\ UNCHANGED <<state_vars, config_vars, starting, open_start, pos>>

\* The actor answers GetCurrentBlock with a copy of current_block.
HandleGetCurrentBlock ==
  /\ Receive("GetCurrentBlock")
  /\ Event("get_current_block", <<>>, <<"Some", current_block>>, NoTally)
  /\ UNCHANGED <<state_vars, config_vars, starting, open_start, pos>>

\* The actor answers GetVotes with a copy of the vote map.
HandleGetVotes ==
  /\ Receive("GetVotes")
  /\ Event("get_votes", <<>>, <<"Map", votes>>, NoTally)
  /\ UNCHANGED <<state_vars, config_vars, starting, open_start, pos>>

\* ------------------------------------------------------ response channels

\* Caller c has placed a request that carries a oneshot sender and awaits
\* the receiver.
Ask(c) ==
  /\ calls[c] = "idle"
  /\ calls' = [calls EXCEPT ![c] = "waiting"]
  /\ resp' = Append(resp, c)
  /\ UNCHANGED session

\* The operations whose handler sends on the request's oneshot sender.
ReplyOps ==
  {"add_vote", "get_current_block", "get_votes", "get_and_clear_feedback"}

\* The handler consumed the oldest queued sender; the caller is answered if
\* the handler sent on it.
Reply ==
  /\ resp' = Tail(resp)
  /\ UNCHANGED session
  /\ calls' =
       [calls EXCEPT ![Head(resp)] =
          IF out'.op \notin ReplyOps THEN @
          ELSE IF @ = "waiting" THEN "answered" ELSE "twice"]

\* The caller's rx.await completes and the call returns.
Return(c) ==
  /\ calls[c] = "answered"
  /\ calls' = [calls EXCEPT ![c] = "idle"]
  /\ UNCHANGED session
  /\ NoEvent
  /\ UNCHANGED <<state_vars, config_vars, mailbox, starting, open_start, pos,
                 resp>>

\* ---------------------------------------------------------------- mempool

\* max_size values given to Mempool::new.
MaxSizes == {2, 3}

\* Transaction (crates/core/src/lib.rs): one sender, a nonce per content,
\* an empty payload; the contents of nonces 1 and 2 circulate under two
\* signatures.
Nonces == {1, 2, 3}
Signatures == {<<0>>, <<1>>}
Transactions ==
  {tx \in [sender : {<<7>>}, nonce : Nonces, payload : {<<>>},
           signature : Signatures] :
     tx.signature = <<0>> \/ tx.nonce \in {1, 2}}

\* Priority scores callers give to add_tx.
Priorities == {10, 20, 30}

\* The calls of add_tx: every transaction is submitted with priority 20 or
\* with ten times its nonce, under either signature.
Submissions ==
  {a \in Transactions \X Priorities : a[2] \in {20, 10 * a[1].nonce}}

\* MempoolTx; the timestamp is written by add_tx and never read.
MempoolTxs == [transaction : Transactions, priority : Priorities]

\* Mempool::hash_tx: blake3 over sender, nonce and payload; the digest is
\* modelled by its input.
hash_tx(tx) == tx.sender \o <<tx.nonce>> \o tx.payload

\* impl Ord for MempoolTx: a <= b, the comparison of the priorities reversed.
Le(a, b) == a.priority >= b.priority

\* a < b in the same order.
Lt(a, b) == a.priority > b.priority

RECURSIVE sift_up(_, _, _, _)
\* BinaryHeap::sift_up(start, pos) with the hole at position hole holding
\* e; positions count from 0 as in the array.
sift_up(data, start, hole, e) ==
  IF hole > start
  THEN LET parent == (hole - 1) \div 2
       IN  IF Le(e, data[parent + 1])
           THEN [data EXCEPT ![hole + 1] = e]
           ELSE sift_up([data EXCEPT ![hole + 1] = data[parent + 1]],
                        start, parent, e)
  ELSE [data EXCEPT ![hole + 1] = e]

\* BinaryHeap::push.
push(data, item) == sift_up(Append(data, item), 0, Len(data), item)

RECURSIVE sift_down_range(_, _, _, _)
\* BinaryHeap::sift_down_range(pos, end) with the hole at position hole
\* holding e.
sift_down_range(data, hole, end, e) ==
  LET child == 2 * hole + 1
  IN  IF end >= 2 /\ child <= end - 2
      THEN LET c == IF Le(data[child + 1], data[child + 2]) THEN child + 1
                    ELSE child
           IN  IF Le(data[c + 1], e)
               THEN [data EXCEPT ![hole + 1] = e]
               ELSE sift_down_range([data EXCEPT ![hole + 1] = data[c + 1]],
                                    c, end, e)
      ELSE IF child = end - 1 /\ Lt(e, data[child + 1])
      THEN [data EXCEPT ![hole + 1] = data[child + 1], ![child + 1] = e]
      ELSE [data EXCEPT ![hole + 1] = e]

RECURSIVE rebuild_from(_, _)
\* The loop of BinaryHeap::rebuild: sift_down at n - 1, ..., 0.
rebuild_from(data, n) ==
  IF n = 0 THEN data
  ELSE rebuild_from(sift_down_range(data, n - 1, Len(data), data[n]), n - 1)

\* BinaryHeap::rebuild.
rebuild(data) == rebuild_from(data, Len(data) \div 2)

RECURSIVE log2_fast(_)
\* The position of the highest set bit of x > 0.
log2_fast(x) == IF x <= 1 THEN 0 ELSE 1 + log2_fast(x \div 2)

RECURSIVE sift_up_tail(_, _)
\* The loop of BinaryHeap::rebuild_tail: sift_up(0, i) for i in start..len.
sift_up_tail(data, i) ==
  IF i >= Len(data) THEN data
  ELSE sift_up_tail(sift_up(data, 0, i, data[i + 1]), i + 1)

\* BinaryHeap::rebuild_tail(start).
rebuild_tail(data, start) ==
  IF start = Len(data) THEN data
  ELSE LET tail_len == Len(data) - start
           better_to_rebuild ==
             IF start < tail_len THEN TRUE
             ELSE IF Len(data) <= 2048
             THEN 2 * Len(data) < tail_len * log2_fast(start)
             ELSE 2 * Len(data) < tail_len * 11
       IN  IF better_to_rebuild THEN rebuild(data)
           ELSE sift_up_tail(data, start)

RECURSIVE VecRetain(_, _)
\* Vec::retain with the closure of remove_included: the entries whose
\* transaction differs from tx, in their order.
VecRetain(data, tx) ==
  IF data = <<>> THEN <<>>
  ELSE IF Head(data).transaction # tx
  THEN <<Head(data)>> \o VecRetain(Tail(data), tx)
  ELSE VecRetain(Tail(data), tx)

\* The first position (from 0) whose entry holds tx, Len(data) if none.
FirstRemoved(data, tx) ==
  LET gone == {i \in 1..Len(data) : data[i].transaction = tx}
  IN  IF gone = {} THEN Len(data)
      ELSE (CHOOSE i \in gone : \A j \in gone : i <= j) - 1

\* BinaryHeap::retain with that closure: Vec::retain, then the heap is
\* rebuilt from the first removed position.
retain(data, tx) ==
  LET kept == VecRetain(data, tx)
      start == FirstRemoved(data, tx)
  IN  IF start >= Len(kept) THEN kept ELSE rebuild_tail(kept, start)

ErrMempoolFull == <<"Err", "Internal", "Mempool is full">>

\* What the Mempool call completed and returned.
MempoolEvent(op, arg, result) ==
  mempool_out' = [op |-> op, arg |-> arg, result |-> result]

\* The refused add_tx is repeated, with success, after a slot was freed.
Retried(sub) ==
  IF retry.stage = "freed" /\ retry.sub = sub
  THEN [retry EXCEPT !.stage = "added"]
  ELSE NoRetry

\* A slot was freed after the add_tx was refused.
Freed(table) ==
  IF retry.stage = "refused"
       /\ Cardinality(DOMAIN table) < Cardinality(DOMAIN mempool_txs)
  THEN [retry EXCEPT !.stage = "freed"]
  ELSE NoRetry

\* An add_tx that looks at the capacity before it looks for the
\* transaction.
add_tx_CapacityFirst(tx, priority) ==
  LET tx_hash == hash_tx(tx)
      mempool_tx == [transaction |-> tx, priority |-> priority]
  IN  /\ IF Cardinality(DOMAIN mempool_txs) >= max_size
         THEN /\ MempoolEvent("add_tx", <<tx, priority>>, ErrMempoolFull)
              /\ retry' = [sub |-> <<tx, priority>>, stage |-> "refused"]
              /\ UNCHANGED <<mempool_txs, queue>>
         ELSE IF tx_hash \in DOMAIN mempool_txs
         THEN /\ MempoolEvent("add_tx", <<tx, priority>>, OkUnit)
              /\ retry' = NoRetry
              /\ UNCHANGED <<mempool_txs, queue>>
         ELSE /\ Len(queue) < MaxQueue
              /\ mempool_txs' = MapInsert(mempool_txs, tx_hash, mempool_tx)
              /\ queue' = push(queue, mempool_tx)
              /\ MempoolEvent("add_tx", <<tx, priority>>, OkUnit)
              /\ retry' = Retried(<<tx, priority>>)
      /\ UNCHANGED <<max_size, manager_vars>>

\* An add_tx that takes one transaction more than max_size.
add_tx_OneTooMany(tx, priority) ==
  LET tx_hash == hash_tx(tx)
      mempool_tx == [transaction |-> tx, priority |-> priority]
  IN  /\ IF tx_hash \in DOMAIN mempool_txs
         THEN /\ MempoolEvent("add_tx", <<tx, priority>>, OkUnit)
              /\ retry' = NoRetry
              /\ UNCHANGED <<mempool_txs, queue>>
         ELSE IF Cardinality(DOMAIN mempool_txs) > max_size
         THEN /\ MempoolEvent("add_tx", <<tx, priority>>, ErrMempoolFull)
              /\ retry' = [sub |-> <<tx, priority>>, stage |-> "refused"]
              /\ UNCHANGED <<mempool_txs, queue>>
         ELSE /\ Len(queue) < MaxQueue
              /\ mempool_txs' = MapInsert(mempool_txs, tx_hash, mempool_tx)
              /\ queue' = push(queue, mempool_tx)
              /\ MempoolEvent("add_tx", <<tx, priority>>, OkUnit)
              /\ retry' = Retried(<<tx, priority>>)
      /\ UNCHANGED <<max_size, manager_vars>>

\* Mempool::add_tx.
add_tx(tx, priority) ==
  LET tx_hash == hash_tx(tx)
      mempool_tx == [transaction |-> tx, priority |-> priority]
  IN  /\ IF tx_hash \in DOMAIN mempool_txs
         THEN /\ MempoolEvent("add_tx", <<tx, priority>>, OkUnit)
              /\ retry' = NoRetry
              /\ UNCHANGED <<mempool_txs, queue>>
         ELSE IF Cardinality(DOMAIN mempool_txs) >= max_size
         THEN /\ MempoolEvent("add_tx", <<tx, priority>>, ErrMempoolFull)
              /\ retry' = [sub |-> <<tx, priority>>, stage |-> "refused"]
              /\ UNCHANGED <<mempool_txs, queue>>
         ELSE /\ Len(queue) < MaxQueue
              /\ mempool_txs' = MapInsert(mempool_txs, tx_hash, mempool_tx)
              /\ queue' = push(queue, mempool_tx)
              /\ MempoolEvent("add_tx", <<tx, priority>>, OkUnit)
              /\ retry' = Retried(<<tx, priority>>)
      /\ UNCHANGED <<max_size, manager_vars>>

RECURSIVE Take(_, _)
\* Iterator::take(n).
Take(data, n) ==
  IF n = 0 \/ data = <<>> THEN <<>>
  ELSE <<Head(data)>> \o Take(Tail(data), n - 1)

RECURSIVE TopOf(_, _)
\* The filter and map of get_top over the entries taken: the transactions
\* whose hash the table holds.
TopOf(table, entries) ==
  IF entries = <<>> THEN <<>>
  ELSE IF hash_tx(Head(entries).transaction) \in DOMAIN table
  THEN <<Head(entries).transaction>> \o TopOf(table, Tail(entries))
  ELSE TopOf(table, Tail(entries))

\* The value of Mempool::get_top(n) for the table and the heap array.
Top(table, data, n) == TopOf(table, Take(data, n))

\* Mempool::get_top.
get_top(n) ==
  /\ MempoolEvent("get_top", <<n>>, Top(mempool_txs, queue, n))
  /\ retry' = NoRetry
  /\ UNCHANGED <<mempool_txs, queue, max_size, manager_vars>>

RECURSIVE RemoveAll(_, _, _)
\* The loop of remove_included over txs: the table and the heap afterwards.
RemoveAll(table, data, txs) ==
  IF txs = <<>> THEN [mempool_txs |-> table, queue |-> data]
  ELSE LET tx == Head(txs)
       IN  RemoveAll(MapRemove(table, hash_tx(tx)), retain(data, tx),
                     Tail(txs))

\* Mempool::remove_included.
remove_included(txs) ==
  LET r == RemoveAll(mempool_txs, queue, txs)
  IN  /\ mempool_txs' = r.mempool_txs
      /\ queue' = r.queue
      /\ MempoolEvent("remove_included", <<txs>>, <<>>)
      /\ retry' = Freed(r.mempool_txs)
      /\ UNCHANGED <<max_size, manager_vars>>

\* ---------------------------------------------------------- specification

\* A step of callers that await no response leaves the response channels
\* alone.
NoCalls == UNCHANGED call_vars

\* The manager and the mempool share no state: a step of one leaves the
\* other alone.
NoPool == UNCHANGED <<mempool_vars, thread_vars>>

\* A step of a caller that runs its mempool call alone, start to end.
NoThreads == UNCHANGED thread_vars

\* Callers that start rounds and vote.
Next ==
  \/ \E b \in Blocks : StartVotingRoundReject(b) /\ NoCalls /\ NoPool
  \/ \E b \in Blocks : StartVotingRoundCheck(b) /\ NoCalls /\ NoPool
  \/ \E b \in Blocks : StartVotingRoundSend(b) /\ NoCalls /\ NoPool
  \/ \E v \in Votes : AddVoteSend(v) /\ NoCalls /\ NoPool
  \/ HandleStartVoting /\ NoCalls /\ NoPool
  \/ HandleVote /\ NoCalls /\ NoPool

Spec == Init /\ [][Next]_vars

\* The votes cast beside feedback traffic: two validators.
FeedbackVotes == {v \in Votes : v.agent_id \in {"v1", "v2"}}

\* Callers that start rounds, vote, and store and drain feedback; a request
\* is sent when the actor has taken the one before it.
NextFeedback ==
  \/ \E b \in Blocks : StartVotingRoundReject(b) /\ NoCalls /\ NoPool
  \/ \E b \in Blocks : StartVotingRoundCheck(b) /\ NoCalls /\ NoPool
  \/ mailbox = <<>>
       /\ \E b \in Blocks : StartVotingRoundSend(b) /\ NoCalls /\ NoPool
  \/ mailbox = <<>>
       /\ \E v \in FeedbackVotes : AddVoteSend(v) /\ NoCalls /\ NoPool
  \/ mailbox = <<>>
       /\ \E p \in Producers, r \in Reasons :
            StoreFeedbackSend(p, r) /\ NoCalls /\ NoPool
  \/ mailbox = <<>>
       /\ \E p \in Producers : GetAndClearFeedbackSend(p) /\ NoCalls /\ NoPool
  \/ HandleStartVoting /\ NoCalls /\ NoPool
  \/ HandleVote /\ NoCalls /\ NoPool
  \/ HandleStoreFeedback /\ NoCalls /\ NoPool
  \/ HandleGetAndClearFeedback /\ NoCalls /\ NoPool

SpecFeedback == Init /\ [][NextFeedback]_vars

\* The votes cast by the callers that await responses: two validators
\* approving the first block.
LiveVotes ==
  {v \in Votes :
     v.agent_id \in {"v1", "v2"} /\ v.block_hash = Hash(Block1) /\ v.approve}

\* The actor task: one message at a time, in mailbox order.
ActorLive ==
  \/ HandleStartVoting /\ NoCalls /\ NoPool
  \/ HandleVote /\ Reply /\ NoPool
  \/ HandleGetCurrentBlock /\ Reply /\ NoPool
  \/ HandleGetVotes /\ Reply /\ NoPool
  \/ HandleStoreFeedback /\ NoCalls /\ NoPool
  \/ HandleGetAndClearFeedback /\ Reply /\ NoPool

\* Callers that place every kind of request and await the responses.
NextLive ==
  \/ StartVotingRoundReject(Block1) /\ NoCalls /\ NoPool
  \/ StartVotingRoundCheck(Block1) /\ NoCalls /\ NoPool
  \/ StartVotingRoundSend(Block1) /\ NoCalls /\ NoPool
  \/ \E c \in Callers, v \in LiveVotes : AddVoteSend(v) /\ Ask(c) /\ NoPool
  \/ \E c \in Callers : GetCurrentBlockSend /\ Ask(c) /\ NoPool
  \/ \E c \in Callers : GetVotesSend /\ Ask(c) /\ NoPool
  \/ \E c \in Callers : GetAndClearFeedbackSend("p1") /\ Ask(c) /\ NoPool
  \/ StoreFeedbackSend("p1", "r1") /\ NoCalls /\ NoPool
  \/ ActorLive
  \/ \E c \in Callers : Return(c) /\ NoPool

\* The runtime schedules the spawned actor task whenever a message is queued:
\* its only other await is the state lock, which start_voting_round holds
\* for the read of voting_state alone.
SpecLive == Init /\ [][NextLive]_vars /\ WF_vars(ActorLive)

\* The lists of transactions given to remove_included.
RemoveLists == {<<tx>> : tx \in Transactions}

\* Callers of the mempool; every call runs under the table's lock.
NextMempool ==
  \/ \E a \in Submissions : add_tx(a[1], a[2]) /\ NoThreads
  \/ \E n \in 1..3 : get_top(n) /\ NoThreads
  \/ \E txs \in RemoveLists : remove_included(txs) /\ NoThreads

\* A mempool of each size, beside a manager that takes no step.
InitMempool ==
  /\ current_block = <<>>
  /\ votes = EmptyMap
  /\ voting_state = "Inactive"
  /\ validator_feedback = EmptyMap
  /\ total_stake = 300
  /\ finality_threshold = 67
  /\ mailbox = <<>>
  /\ starting = [b \in Blocks |-> 0]
  /\ stake_of = [a \in Agents |-> 100]
  /\ out = NoOut
  /\ tally = NoTally
  /\ pre_state = "Inactive"
  /\ open_start = FALSE
  /\ pos = 0
  /\ resp = <<>>
  /\ calls = [c \in Callers |-> "idle"]
  /\ session = NoSession
  /\ \E n \in MaxSizes : MempoolNew(n)

SpecMempool == InitMempool /\ [][NextMempool]_vars

\* ------------------------------------------- the mempool, called by threads

\* What the threads submit, ask for and remove.
ThreadSubmissions ==
  {a \in Submissions : a[1].nonce \in {1, 2} /\ a[2] = 10 * a[1].nonce}
ThreadTops == {1, 2}
ThreadRemoveLists ==
  LET tx(n, s) == [sender |-> <<7>>, nonce |-> n, payload |-> <<>>,
                   signature |-> <<s>>]
  IN  {<<tx(1, 1)>>, <<tx(2, 0)>>, <<tx(1, 0), tx(2, 0)>>}

\* RwLock: a reader waits while guard.writer is held.
CanRead_Always(guard) == TRUE

\* RwLock: a reader waits while the writer holds the lock.
CanRead(guard) == guard.writer = "none"

\* RwLock: a writer waits while anyone holds the lock.
CanWrite(guard) == guard.writer = "none" /\ guard.readers = {}

\* RwLock::read and RwLock::write by thread t, and the drop of its guard.
ReadLocked(guard, t) == [guard EXCEPT !.readers = @ \cup {t}]
WriteLocked(guard, t) == [guard EXCEPT !.writer = t]
Dropped(guard, t) ==
  [writer |-> IF guard.writer = t THEN "none" ELSE guard.writer,
   readers |-> guard.readers \ {t}]

\* Thread t moves to pc.
Goto(t, pc) == th' = [th EXCEPT ![t].pc = pc]

\* Thread t returns from its call with result.
Returns(t, result) ==
  /\ th' = [th EXCEPT ![t] = Idle]
  /\ MempoolEvent(th[t].op, th[t].arg, result)

\* The table and the heap as the returning mutation leaves them.
Commit == committed' = [mempool_txs |-> mempool_txs, queue |-> queue]

\* The add_tx calls under way that may still push an entry.
AddsUnderWay ==
  Cardinality({t \in Threads :
                 th[t].op = "add_tx" /\ th[t].pc \in {"lock_txs", "check",
                                                       "push"}})

\* Thread t calls an operation of the mempool; add_tx is called while the
\* heap of the model has room for the entries of the calls under way.
ThreadCall(t, op, arg) ==
  /\ th[t].pc = "idle"
  /\ op = "add_tx" => Len(queue) + AddsUnderWay < MaxQueue
  /\ th' = [th EXCEPT ![t] = [pc |-> "lock_txs", op |-> op, arg |-> arg,
                              rest |-> IF op = "remove_included"
                                       THEN arg[1] ELSE <<>>]]
  /\ UNCHANGED <<mempool_vars, txs_lock, queue_lock, committed,
                 manager_vars>>

\* add_tx and remove_included: self.txs.write().
WriteLockTxs(t) ==
  /\ th[t].pc = "lock_txs"
  /\ th[t].op \in {"add_tx", "remove_included"}
  /\ CanWrite(txs_lock)
  /\ txs_lock' = WriteLocked(txs_lock, t)
  /\ Goto(t, IF th[t].op = "add_tx" THEN "check" ELSE "lock_queue")
  /\ UNCHANGED <<mempool_vars, queue_lock, committed, manager_vars>>

\* add_tx: the two early returns, or the insert into the table.
AddCheck(t) ==
  LET tx == th[t].arg[1]
      priority == th[t].arg[2]
      tx_hash == hash_tx(tx)
      mempool_tx == [transaction |-> tx, priority |-> priority]
  IN  /\ th[t].pc = "check"
      /\ IF tx_hash \in DOMAIN mempool_txs
         THEN /\ Returns(t, OkUnit)
              /\ txs_lock' = Dropped(txs_lock, t)
              /\ UNCHANGED mempool_txs
         ELSE IF Cardinality(DOMAIN mempool_txs) >= max_size
         THEN /\ Returns(t, ErrMempoolFull)
              /\ txs_lock' = Dropped(txs_lock, t)
              /\ UNCHANGED mempool_txs
         ELSE /\ mempool_txs' = MapInsert(mempool_txs, tx_hash, mempool_tx)
              /\ Goto(t, "push")
              /\ UNCHANGED <<txs_lock, mempool_out>>
      /\ UNCHANGED <<queue, max_size, retry, queue_lock, committed,
                     manager_vars>>

\* add_tx: self.queue.write().push(mempool_tx), the guard a temporary.
AddPush(t) ==
  LET mempool_tx == [transaction |-> th[t].arg[1],
                     priority |-> th[t].arg[2]]
  IN  /\ th[t].pc = "push"
      /\ CanWrite(queue_lock)
      /\ Len(queue) < MaxQueue
      /\ queue' = push(queue, mempool_tx)
      /\ Goto(t, "return")
      /\ UNCHANGED <<mempool_txs, max_size, mempool_out, retry, txs_lock,
                     queue_lock, committed, manager_vars>>

\* add_tx: Ok(()), the guard of txs kept past the return.
AddReturn_KeepsGuard(t) ==
  /\ th[t].pc = "return"
  /\ th[t].op = "add_tx"
  /\ Returns(t, OkUnit)
  /\ Commit
  /\ UNCHANGED <<mempool_txs, queue, max_size, retry, txs_lock, queue_lock,
                 manager_vars>>

\* add_tx: Ok(()), and the guard of txs is dropped.
AddReturn(t) ==
  /\ th[t].pc = "return"
  /\ th[t].op = "add_tx"
  /\ Returns(t, OkUnit)
  /\ txs_lock' = Dropped(txs_lock, t)
  /\ Commit
  /\ UNCHANGED <<mempool_txs, queue, max_size, retry, queue_lock,
                 manager_vars>>

\* get_top: self.txs.read().
ReadLockTxs(t) ==
  /\ th[t].pc = "lock_txs"
  /\ th[t].op = "get_top"
  /\ CanRead(txs_lock)
  /\ txs_lock' = ReadLocked(txs_lock, t)
  /\ Goto(t, "lock_queue")
  /\ UNCHANGED <<mempool_vars, queue_lock, committed, manager_vars>>

\* get_top: self.queue.read().
ReadLockQueue(t) ==
  /\ th[t].pc = "lock_queue"
  /\ th[t].op = "get_top"
  /\ CanRead(queue_lock)
  /\ queue_lock' = ReadLocked(queue_lock, t)
  /\ Goto(t, "read")
  /\ UNCHANGED <<mempool_vars, txs_lock, committed, manager_vars>>

\* get_top: the iterator chain, and both guards are dropped.
TopRead(t) ==
  /\ th[t].pc = "read"
  /\ Returns(t, Top(mempool_txs, queue, th[t].arg[1]))
  /\ txs_lock' = Dropped(txs_lock, t)
  /\ queue_lock' = Dropped(queue_lock, t)
  /\ UNCHANGED <<mempool_txs, queue, max_size, retry, committed,
                 manager_vars>>

\* remove_included: self.queue.write().
WriteLockQueue(t) ==
  /\ th[t].pc = "lock_queue"
  /\ th[t].op = "remove_included"
  /\ CanWrite(queue_lock)
  /\ queue_lock' = WriteLocked(queue_lock, t)
  /\ Goto(t, IF th[t].rest = <<>> THEN "return" ELSE "remove")
  /\ UNCHANGED <<mempool_vars, txs_lock, committed, manager_vars>>

\* remove_included: mempool_txs.remove(&tx_hash) for the next transaction.
RemoveFromTable(t) ==
  /\ th[t].pc = "remove"
  /\ mempool_txs' = MapRemove(mempool_txs, hash_tx(Head(th[t].rest)))
  /\ Goto(t, "retain")
  /\ UNCHANGED <<queue, max_size, mempool_out, retry, txs_lock, queue_lock,
                 committed, manager_vars>>

\* remove_included: queue.retain(..) for the same transaction, and the loop
\* goes on to the next one.
RetainInQueue(t) ==
  /\ th[t].pc = "retain"
  /\ queue' = retain(queue, Head(th[t].rest))
  /\ th' = [th EXCEPT ![t].rest = Tail(@),
                      ![t].pc = IF Tail(th[t].rest) = <<>>
                                THEN "return" ELSE "remove"]
  /\ UNCHANGED <<mempool_txs, max_size, mempool_out, retry, txs_lock,
                 queue_lock, committed, manager_vars>>

\* remove_included: the return, and both guards are dropped.
RemoveReturn(t) ==
  /\ th[t].pc = "return"
  /\ th[t].op = "remove_included"
  /\ Returns(t, <<>>)
  /\ txs_lock' = Dropped(txs_lock, t)
  /\ queue_lock' = Dropped(queue_lock, t)
  /\ Commit
  /\ UNCHANGED <<mempool_txs, queue, max_size, retry, manager_vars>>

\* Threads that share one mempool, each running one call at a time, any
\* interleaving of their steps.
NextThreads ==
  \E t \in Threads :
    \/ \E a \in ThreadSubmissions : ThreadCall(t, "add_tx", a)
    \/ \E n \in ThreadTops : ThreadCall(t, "get_top", <<n>>)
    \/ \E txs \in ThreadRemoveLists :
         ThreadCall(t, "remove_included", <<txs>>)
    \/ WriteLockTxs(t)
    \/ AddCheck(t)
    \/ AddPush(t)
    \/ AddReturn(t)
    \/ ReadLockTxs(t)
    \/ ReadLockQueue(t)
    \/ TopRead(t)
    \/ WriteLockQueue(t)
    \/ RemoveFromTable(t)
    \/ RetainInQueue(t)
    \/ RemoveReturn(t)

\* A mempool of two slots, beside a manager that takes no step.
InitThreads ==
  /\ current_block = <<>>
  /\ votes = EmptyMap
  /\ voting_state = "Inactive"
  /\ validator_feedback = EmptyMap
  /\ total_stake = 300
  /\ finality_threshold = 67
  /\ mailbox = <<>>
  /\ starting = [b \in Blocks |-> 0]
  /\ stake_of = [a \in Agents |-> 100]
  /\ out = NoOut
  /\ tally = NoTally
  /\ pre_state = "Inactive"
  /\ open_start = FALSE
  /\ pos = 0
  /\ resp = <<>>
  /\ calls = [c \in Callers |-> "idle"]
  /\ session = NoSession
  /\ MempoolNew(2)

SpecThreads == InitThreads /\ [][NextThreads]_vars

\* ------------------------------------------- the manager, by stake supplied

\* The total stake of the manager and the stakes the callers of add_vote
\* supply, one per validator: unequal stakes that add up to the total,
\* stakes below the threshold stake whose sum passes u64::MAX, and a total
\* whose threshold stake truncates to 0.
WideStakeProfiles ==
  {<<300, [a \in Agents |-> IF a = "v1" THEN 250 ELSE 25]>>,
   <<300, [a \in Agents |->
             IF a = "v1" THEN 200 ELSE IF a = "v2" THEN 67 ELSE 33]>>,
   <<U64_MAX, [a \in Agents |-> U64_MAX \div 2 + 1]>>,
   <<1, [a \in Agents |-> IF a = "v1" THEN 1 ELSE 0]>>}

\* The votes on Block1.
StakeVotes == {v \in Votes : v.block_hash = Hash(Block1)}

\* Callers that start rounds on Block1 and vote on it; a request is sent
\* when the actor has taken the one before it.
NextStakes ==
  \/ StartVotingRoundReject(Block1) /\ NoCalls /\ NoPool
  \/ StartVotingRoundCheck(Block1) /\ NoCalls /\ NoPool
  \/ mailbox = <<>> /\ StartVotingRoundSend(Block1) /\ NoCalls /\ NoPool
  \/ mailbox = <<>>
       /\ \E v \in StakeVotes : AddVoteSend(v) /\ NoCalls /\ NoPool
  \/ HandleStartVoting /\ NoCalls /\ NoPool
  \/ HandleVote /\ NoCalls /\ NoPool

\* ConsensusManager::new(total_stake, 0.67), and validators of each stake
\* profile.
InitStakes ==
  /\ current_block = <<>>
  /\ votes = EmptyMap
  /\ voting_state = "Inactive"
  /\ validator_feedback = EmptyMap
  /\ \E p \in WideStakeProfiles : total_stake = p[1] /\ stake_of = p[2]
  /\ finality_threshold = 67
  /\ mailbox = <<>>
  /\ starting = [b \in Blocks |-> 0]
  /\ out = NoOut
  /\ tally = NoTally
  /\ pre_state = "Inactive"
  /\ open_start = FALSE
  /\ pos = 0
  /\ resp = <<>>
  /\ calls = [c \in Callers |-> "idle"]
  /\ session = NoSession
  /\ MempoolNew(3)

SpecStakes == InitStakes /\ [][NextStakes]_vars

\* ---------------------------------------- the manager, rounds and queries

\* Callers that start rounds on either block, vote, query the block and the
\* votes, and store and drain feedback; a request is sent when the actor
\* has taken the one before it.
NextQueries ==
  \/ \E b \in Blocks : StartVotingRoundReject(b) /\ NoCalls /\ NoPool
  \/ \E b \in Blocks : StartVotingRoundCheck(b) /\ NoCalls /\ NoPool
  \/ mailbox = <<>>
       /\ \E b \in Blocks : StartVotingRoundSend(b) /\ NoCalls /\ NoPool
  \/ mailbox = <<>>
       /\ \E v \in Votes : AddVoteSend(v) /\ NoCalls /\ NoPool
  \/ mailbox = <<>> /\ GetCurrentBlockSend /\ NoCalls /\ NoPool
  \/ mailbox = <<>> /\ GetVotesSend /\ NoCalls /\ NoPool
  \/ mailbox = <<>> /\ StoreFeedbackSend("p1", "r1") /\ NoCalls /\ NoPool
  \/ mailbox = <<>> /\ GetAndClearFeedbackSend("p1") /\ NoCalls /\ NoPool
  \/ HandleStartVoting /\ NoCalls /\ NoPool
  \/ HandleVote /\ NoCalls /\ NoPool
  \/ HandleGetCurrentBlock /\ NoCalls /\ NoPool
  \/ HandleGetVotes /\ NoCalls /\ NoPool
  \/ HandleStoreFeedback /\ NoCalls /\ NoPool
  \/ HandleGetAndClearFeedback /\ NoCalls /\ NoPool

SpecQueries == InitStakes /\ [][NextQueries]_vars

\* ------------------------------- the manager, one caller's requests in turn

\* The votes cast while a caller's requests follow each other.
SessionVotes == {v \in Votes : v.agent_id \in {"v1", "v2"}}

\* What a caller asks after its start_voting_round: add_vote,
\* get_current_block or get_votes.
SessionRequests ==
  {Msg("Vote", <<v, stake_of[v.agent_id]>>) : v \in SessionVotes}
    \cup {Msg("GetCurrentBlock", <<>>), Msg("GetVotes", <<>>)}

\* add_vote, get_current_block, get_votes: the send of the message, behind
\* at most MaxPending - 1 queued ones.
Place(msg) ==
  /\ Len(mailbox) < MaxPending
  /\ Send(msg)
  /\ NoEvent
  /\ UNCHANGED <<state_vars, config_vars, starting, open_start, pos>>

\* start_voting_round returns Ok to its caller once StartVoting(b) is
\* queued; the caller's requests that follow are counted from here.
SessionStartSend(b) ==
  /\ starting[b] > 0
  /\ Len(mailbox) < MaxPending
  /\ starting' = [starting EXCEPT ![b] = @ - 1]
  /\ Send(Msg("StartVoting", <<b>>))
  /\ Event("start_voting_round", <<b>>, OkUnit, NoTally)
  /\ open_start' = TRUE
  /\ session' = [block |-> <<b>>, stage |-> "started", at |-> 0]
  /\ UNCHANGED <<state_vars, config_vars, pos, resp, calls>>

\* The caller whose start_voting_round returned Ok sends its next request,
\* a vote for the hash of its block or a query, and no other caller has sent
\* one in between.
OwnRequest(msg) ==
  /\ session.stage = "started"
  /\ msg.type = "Vote" => msg.arg[1].block_hash = Hash(session.block[1])
  /\ Place(msg)
  /\ session' = [session EXCEPT !.stage = "asked", !.at = Len(mailbox) + 1]
  /\ UNCHANGED <<resp, calls>>

\* Another caller sends a request; if the starting caller has not sent its
\* next request yet, the other caller has intervened.
OtherRequest(msg) ==
  /\ Place(msg)
  /\ session' = IF session.stage = "started" THEN NoSession ELSE session
  /\ UNCHANGED <<resp, calls>>

\* The actor has taken one more message; the caller's request comes nearer
\* to the head of the channel, or was the one taken.
Served ==
  /\ session' = IF session.stage # "asked" THEN session
                ELSE IF session.at = 1 THEN NoSession
                ELSE [session EXCEPT !.at = @ - 1]
  /\ UNCHANGED <<resp, calls>>

\* Callers that start rounds and place votes and queries while the actor
\* works the channel off.
NextSession ==
  \/ \E b \in Blocks : StartVotingRoundReject(b) /\ NoCalls /\ NoPool
  \/ \E b \in Blocks : StartVotingRoundCheck(b) /\ NoCalls /\ NoPool
  \/ \E b \in Blocks : SessionStartSend(b) /\ NoPool
  \/ \E msg \in SessionRequests : OwnRequest(msg) /\ NoPool
  \/ \E msg \in SessionRequests : OtherRequest(msg) /\ NoPool
  \/ HandleStartVoting /\ Served /\ NoPool
  \/ HandleVote /\ Served /\ NoPool
  \/ HandleGetCurrentBlock /\ Served /\ NoPool
  \/ HandleGetVotes /\ Served /\ NoPool

\* ConsensusManager::new(300, 0.67); validator v1 holds 200, the others 100.
InitSession ==
  /\ current_block = <<>>
  /\ votes = EmptyMap
  /\ voting_state = "Inactive"
  /\ validator_feedback = EmptyMap
  /\ total_stake = 300
  /\ finality_threshold = 67
  /\ mailbox = <<>>
  /\ starting = [b \in Blocks |-> 0]
  /\ stake_of = [a \in Agents |-> IF a = "v1" THEN 200 ELSE 100]
  /\ out = NoOut
  /\ tally = NoTally
  /\ pre_state = "Inactive"
  /\ open_start = FALSE
  /\ pos = 0
  /\ resp = <<>>
  /\ calls = [c \in Callers |-> "idle"]
  /\ session = NoSession
  /\ MempoolNew(3)

SpecSession == InitSession /\ [][NextSession]_vars

\* ------------------------------- the mempool, called by threads that go on

\* What the threads that go on submit, ask for and remove: each transaction
\* under one signature, so that no entry outlives its removal.
LiveSubmissions == {a \in ThreadSubmissions : a[1].signature = <<0>>}
LiveTops == {2}
LiveRemoveLists == {txs \in ThreadRemoveLists :
                      \A i \in DOMAIN txs : txs[i].signature = <<0>>}

\* Thread t calls one of the three operations.
Calls(t) ==
  \/ \E a \in LiveSubmissions : ThreadCall(t, "add_tx", a)
  \/ \E n \in LiveTops : ThreadCall(t, "get_top", <<n>>)
  \/ \E txs \in LiveRemoveLists : ThreadCall(t, "remove_included", <<txs>>)

\* Thread t takes the lock of the table, the first lock of every call.
LockTxs(t) ==
  \/ WriteLockTxs(t)
  \/ ReadLockTxs(t)

\* Thread t takes a step of its call under the lock of the table.
Body(t) ==
  \/ AddCheck(t)
  \/ AddPush(t)
  \/ AddReturn(t)
  \/ ReadLockQueue(t)
  \/ TopRead(t)
  \/ WriteLockQueue(t)
  \/ RemoveFromTable(t)
  \/ RetainInQueue(t)
  \/ RemoveReturn(t)

NextThreadsLive ==
  \E t \in Threads :
    \/ Calls(t)
    \/ LockTxs(t)
    \/ Body(t)

\* The scheduler runs every thread that can take a step, and the RwLock
\* hands the lock to every thread that keeps asking for it; no thread has to
\* call again.
FairThreads ==
  \A t \in Threads : SF_vars(LockTxs(t)) /\ WF_vars(Body(t))

SpecThreadsLive == InitThreads /\ [][NextThreadsLive]_vars /\ FairThreads

\* ------------------------------------------------------------------ claims

\* The step just taken was add_vote, and process_vote recorded the vote.
VoteRecorded == out.op = "add_vote" /\ tally # NoTally

Threshold == ThresholdStake(total_stake, finality_threshold)

Approvers == {a \in DOMAIN votes : votes[a].approve}
Rejecters == {a \in DOMAIN votes : ~votes[a].approve}

RECURSIVE OwnStake(_)
\* The sum, over the agents of S, of the stake each supplied with its own vote.
OwnStake(S) ==
  IF S = {} THEN 0
  ELSE LET a == CHOOSE x \in S : TRUE IN stake_of[a] + OwnStake(S \ {a})

\* The step is the actor applying a StartVoting message.
AppliesStartVoting == out'.op = "StartVoting"

\* C1: after add_vote records a vote, the approve-stake compared with the
\* threshold is the sum of the stakes the approving agents supplied with their
\* own votes, and the reject-stake the same sum over the rejecting agents.
C1_TallyIsSumOfOwnStakes ==
  VoteRecorded =>
    /\ tally[1] = OwnStake(Approvers)
    /\ tally[2] = OwnStake(Rejecters)

\* C2: the add_vote that brings the approve-stake to the threshold returns
\* Ok(true) and completes the round; every add_vote applied to a Completed
\* round fails with "No active voting round" and leaves it Completed, and
\* only the start of a new round ends the Completed state.
C2_ApprovalResolves ==
  /\ (VoteRecorded /\ tally[1] >= Threshold)
       => (out.result = OkTrue /\ voting_state = "Completed")
  /\ (out.op = "add_vote" /\ pre_state = "Completed")
       => (out.result = ErrNoActiveRound /\ voting_state = "Completed")
  /\ (pre_state = "Completed" /\ voting_state # "Completed")
       => out.op = "StartVoting"

\* A vote refused after the round was approved by three approving votes.
C2_Witness ==
  /\ out.op = "add_vote"
  /\ out.result = ErrNoActiveRound
  /\ voting_state = "Completed"
  /\ Cardinality(Approvers) = 3

\* C3: the add_vote that brings the reject-stake to the threshold while the
\* approve-stake is below it returns Ok(false) and completes the round; no
\* add_vote applied to the Completed round is recorded.
C3_RejectionResolves ==
  [][/\ (out'.op = "add_vote" /\ tally' # NoTally /\ tally'[2] >= Threshold
           /\ tally'[1] < Threshold)
          => (out'.result = OkFalse /\ voting_state' = "Completed")
     /\ (out'.op = "add_vote" /\ voting_state = "Completed")
          => (out'.result[1] = "Err" /\ tally' = NoTally /\ votes' = votes
                /\ voting_state' = "Completed")]_vars

\* A vote refused after the round was rejected by three rejecting votes.
C3_Witness ==
  /\ out.op = "add_vote"
  /\ out.result = ErrNoActiveRound
  /\ voting_state = "Completed"
  /\ Cardinality(Rejecters) = 3

\* C4: an add_vote for the current block that leaves both tallies below the
\* threshold returns Err(InsufficientStake), its vote is in the vote map, and
\* the round stays Active: the next add_vote for the current block is
\* recorded too.
C4_InsufficientStakeKeepsRoundOpen ==
  /\ (VoteRecorded /\ tally[1] < Threshold /\ tally[2] < Threshold)
       => /\ out.result = ErrInsufficientStake
          /\ out.arg[1].agent_id \in DOMAIN votes
          /\ votes[out.arg[1].agent_id] = out.arg[1]
          /\ pre_state = "Active"
          /\ voting_state = "Active"
  /\ (out.op = "add_vote" /\ pre_state = "Active"
        /\ out.arg[1].block_hash = Hash(current_block[1]))
       => (VoteRecorded /\ votes[out.arg[1].agent_id] = out.arg[1])

\* A second vote recorded in a round that an InsufficientStake left open.
C4_Witness ==
  /\ VoteRecorded
  /\ out.result = ErrInsufficientStake
  /\ voting_state = "Active"
  /\ Cardinality(DOMAIN votes) = 2

\* C5: a recorded vote replaces the earlier vote of its agent and changes no
\* other entry, so the two tallies together count every voting agent once;
\* with total_stake 300, finality_threshold 0.67 and three validators of
\* stake 100, the votes v1 approve, v2 approve, v1 reject, v3 approve,
\* v1 approve return InsufficientStake four times and then Ok(true).
C5_OneVotePerAgent ==
  [][(out'.op = "add_vote" /\ tally' # NoTally)
       => LET vote == out'.arg[1]
              stake == out'.arg[2]
          IN  /\ DOMAIN votes' = (DOMAIN votes) \cup {vote.agent_id}
              /\ votes'[vote.agent_id] = vote
              /\ \A a \in (DOMAIN votes) \ {vote.agent_id} :
                   votes'[a] = votes[a]
              /\ tally'[1] + tally'[2] = stake * Cardinality(DOMAIN votes')
              /\ (pos' \in 1..4 => out'.result = ErrInsufficientStake)
              /\ (pos' = 5 => out'.result = OkTrue)]_vars

\* The last vote of the worked example has been applied.
C5_Witness == pos = 5 /\ out.op = "add_vote" /\ out.result = OkTrue

\* C6: when add_vote records a rejecting vote, the vote's reason is the last
\* entry of the feedback of the current block's producer.
C6_RejectionStoresFeedback ==
  (VoteRecorded /\ ~out.arg[1].approve) =>
    LET fb == FeedbackOf(current_block[1].producer_id)
    IN  fb # <<>> /\ fb[Len(fb)] = out.arg[1].reason

\* C7: once a start_voting_round has returned Ok and no round has resolved
\* since, no further call passes the state check, and no StartVoting is
\* applied over the block and the votes of an Active round.
C7_SecondStartFails ==
  [][/\ open_start => \A b \in Blocks : starting'[b] <= starting[b]
     /\ (AppliesStartVoting /\ voting_state = "Active")
          => (current_block' = current_block /\ votes' = votes)]_vars

\* The round is Active, no message is queued and no caller is past the check.
Stalled == voting_state = "Active" /\ mailbox = <<>> /\ TotalStarting = 0

\* C8, as stated: a start_voting_round called on a stalled Active round is
\* not refused.
C8_StalledRoundIsReplaced ==
  [][(Stalled /\ out'.op = "start_voting_round") => out'.result = OkUnit]_vars

\* C8, amended: while the round is Active no call passes the state check of
\* start_voting_round; the call returns the round-active error, queues
\* nothing and changes nothing, and no step changes a stalled round.
C8_ActiveRoundIsNotReplaced ==
  [][/\ voting_state = "Active"
          => /\ \A b \in Blocks : starting'[b] <= starting[b]
             /\ out'.op = "start_voting_round"
                  => \/ /\ out'.result = ErrRoundActive
                        /\ UNCHANGED <<state_vars, mailbox, starting>>
                     \/ /\ out'.result = OkUnit
                        /\ \E b \in Blocks : starting'[b] < starting[b]
     /\ Stalled => UNCHANGED state_vars]_vars

\* A call with a new block refused on a stalled round.
C8_Witness ==
  /\ Stalled
  /\ out.op = "start_voting_round"
  /\ out.result = ErrRoundActive
  /\ out.arg # current_block
  /\ votes # EmptyMap

\* C9: a start_voting_round whose check finds Inactive or Completed is not
\* refused and returns Ok when its message is queued; the StartVoting applied
\* leaves exactly its block as current block, an empty vote map and Active.
C9_StartInstallsBlock ==
  /\ (out.op = "start_voting_round" /\ out.result = ErrRoundActive)
       => pre_state = "Active"
  /\ (out.op = "start_voting_round" /\ out.result # ErrRoundActive)
       => (out.result = OkUnit /\ mailbox # <<>>
             /\ mailbox[Len(mailbox)] = Msg("StartVoting", out.arg))
  /\ out.op = "StartVoting"
       => (current_block = out.arg /\ votes = EmptyMap
             /\ voting_state = "Active")

\* A round started over a Completed one.
C9_Witness ==
  /\ out.op = "StartVoting"
  /\ pre_state = "Completed"
  /\ current_block = out.arg
  /\ votes = EmptyMap

\* C10: add_vote applied while the state is Inactive or Completed fails with
\* "No active voting round", applied to an Active round with another hash it
\* fails with "Vote for wrong block"; the two errors differ from each other
\* and from InsufficientStake, and neither changes the vote map, the voting
\* state, the current block or the feedback.
C10_RefusedVotesChangeNothing ==
  [][out'.op = "add_vote"
       => /\ voting_state # "Active"
               => (out'.result = ErrNoActiveRound /\ UNCHANGED state_vars)
          /\ (voting_state = "Active"
                /\ out'.arg[1].block_hash # Hash(current_block[1]))
               => (out'.result = ErrWrongBlock /\ UNCHANGED state_vars)
          /\ Cardinality({ErrNoActiveRound, ErrWrongBlock,
                          ErrInsufficientStake}) = 3]_vars

\* A vote for another block refused in a round that holds votes.
C10_Witness ==
  /\ out.op = "add_vote"
  /\ out.result = ErrWrongBlock
  /\ votes # EmptyMap
  /\ validator_feedback # EmptyMap
  /\ voting_state = "Active"

\* C11: the check that no round is Active and the installation of the new
\* block are one atomic step: the actor never installs a block, nor clears
\* the vote map, while the round is Active.
C11_StartIsAtomic == out.op = "StartVoting" => pre_state # "Active"

\* The queued senders belong to the waiting callers, one each.
OneSenderPerCall ==
  /\ \A c \in Callers :
       calls[c] = "waiting" <=> \E i \in 1..Len(resp) : resp[i] = c
  /\ \A i, j \in 1..Len(resp) : resp[i] = resp[j] => i = j
  /\ \A c \in Callers : calls[c] # "twice"

Takes(type) ==
  /\ mailbox # <<>>
  /\ Head(mailbox).type = type
  /\ mailbox' = Tail(mailbox)

\* The reasons the feedback map m holds for producer p.
FeedbackIn(m, p) == IF p \in DOMAIN m THEN m[p] ELSE <<>>

\* C13: get_and_clear_feedback(p) returns every reason stored for p since
\* the last drain, in the order stored, and removes the entry, so that a
\* second call with no store in between returns the empty sequence: a store
\* appends to p's reasons, a drain returns them and leaves none, and no other
\* step touches them.
C13_DrainReturnsStoredInOrder ==
  [][/\ Takes("StoreFeedback") =>
          LET p == Head(mailbox).arg[1]
              r == Head(mailbox).arg[2]
          IN  FeedbackIn(validator_feedback', p) = Append(FeedbackOf(p), r)
     /\ Takes("GetAndClearFeedback") =>
          LET p == Head(mailbox).arg[1]
          IN  /\ out'.op = "get_and_clear_feedback"
              /\ out'.result = FeedbackOf(p)
              /\ p \notin DOMAIN validator_feedback'
     /\ ~Takes("StoreFeedback") /\ ~Takes("GetAndClearFeedback")
          => validator_feedback' = validator_feedback]_vars

\* A drain returned two different reasons, the later-stored one last.
C13_Witness ==
  /\ out.op = "get_and_clear_feedback"
  /\ out.result = <<"r2", "r1">>
  /\ out.arg[1] \notin DOMAIN validator_feedback

\* C14: feedback is independent of the round lifecycle: a StoreFeedback
\* message is applied in whatever voting state the actor takes it and leaves
\* the round alone; starting a round and recording votes, completing the
\* round included, leave the stored feedback as it is; a drain leaves the
\* other producers' feedback, the vote map, the current block and the voting
\* state unchanged.
C14_FeedbackIndependentOfRounds ==
  [][/\ Takes("StoreFeedback") =>
          /\ out'.op = "StoreFeedback"
          /\ validator_feedback' # validator_feedback
          /\ UNCHANGED <<votes, current_block, voting_state>>
     /\ out'.op \in {"start_voting_round", "StartVoting", "add_vote"}
          => validator_feedback' = validator_feedback
     /\ Takes("GetAndClearFeedback") =>
          /\ \A q \in Producers \ {Head(mailbox).arg[1]} :
               FeedbackIn(validator_feedback', q) = FeedbackOf(q)
          /\ UNCHANGED <<votes, current_block, voting_state>>]_vars

\* Feedback stored for a second producer in a Completed round that holds
\* votes.
C14_Witness ==
  /\ out.op = "StoreFeedback"
  /\ voting_state = "Completed"
  /\ votes # EmptyMap
  /\ DOMAIN validator_feedback = Producers

\* The priority the table holds for a pooled transaction.
PriorityOf(tx) == mempool_txs[hash_tx(tx)].priority

\* The number of pooled transactions.
PoolSize == Cardinality(DOMAIN mempool_txs)

\* C15: top(n) returns the n highest-priority pooled transactions in
\* descending priority order, whatever order they were added in: as many as
\* asked for or as the pool holds, each pooled, none behind one of lower
\* priority, and none left out that has a higher priority than one returned.
C15_TopIsHighestFirst ==
  mempool_out.op = "get_top" =>
    LET n == mempool_out.arg[1]
        r == mempool_out.result
    IN  /\ Len(r) = IF n < PoolSize THEN n ELSE PoolSize
        /\ \A i \in 1..Len(r) : hash_tx(r[i]) \in DOMAIN mempool_txs
        /\ \A i, j \in 1..Len(r) :
             i < j => PriorityOf(r[i]) >= PriorityOf(r[j])
        /\ \A h \in DOMAIN mempool_txs, i \in 1..Len(r) :
             (\A j \in 1..Len(r) : hash_tx(r[j]) # h)
               => mempool_txs[h].priority <= PriorityOf(r[i])

RECURSIVE IndexOf(_, _)
\* The position of the first occurrence of x in the sequence s, 0 if none.
IndexOf(s, x) ==
  IF s = <<>> THEN 0
  ELSE IF Head(s) = x THEN 1
  ELSE LET i == IndexOf(Tail(s), x) IN IF i = 0 THEN 0 ELSE i + 1

\* Transactions a and b are pooled in the table with the same priority.
Tied(table, a, b) ==
  /\ hash_tx(a) # hash_tx(b)
  /\ hash_tx(a) \in DOMAIN table /\ table[hash_tx(a)].transaction = a
  /\ hash_tx(b) \in DOMAIN table /\ table[hash_tx(b)].transaction = b
  /\ table[hash_tx(a)].priority = table[hash_tx(b)].priority

\* top(n) over the whole pool returns a before b.
Precedes(table, data, a, b) ==
  LET r == Top(table, data, Len(data))
  IN  IndexOf(r, a) # 0 /\ IndexOf(r, a) < IndexOf(r, b)

\* The hashes of the transactions the call of the step just taken was given.
Concerned(o) ==
  IF o.op = "add_tx" THEN {hash_tx(o.arg[1])}
  ELSE IF o.op = "remove_included"
  THEN {hash_tx(o.arg[1][i]) : i \in 1..Len(o.arg[1])}
  ELSE {}

\* C16: equal-priority transactions are returned by top(n) in an order fixed
\* by a stable secondary key: an add or a remove of other transactions does
\* not change the relative order of two pooled transactions of equal
\* priority.
C16_TiesKeepTheirOrder ==
  [][\A a, b \in Transactions :
       (/\ Tied(mempool_txs, a, b)
        /\ Tied(mempool_txs', a, b)
        /\ Concerned(mempool_out') \cap {hash_tx(a), hash_tx(b)} = {}
        /\ Precedes(mempool_txs, queue, a, b))
         => Precedes(mempool_txs', queue', a, b)]_vars

\* C17: add is idempotent on content: an add_tx of a transaction whose
\* (sender, nonce, payload) is already pooled returns Ok and leaves the table
\* and the queue, and so the pool size, the stored entry and its priority,
\* as they were, at capacity or not and whatever priority and signature the
\* re-submitted copy carries.
C17_AddIsIdempotent ==
  [][(/\ mempool_out'.op = "add_tx"
      /\ hash_tx(mempool_out'.arg[1]) \in DOMAIN mempool_txs)
       => /\ mempool_out'.result = OkUnit
          /\ UNCHANGED <<mempool_txs, queue>>]_vars

\* A pool at capacity was given a copy of a pooled transaction under another
\* signature and with another priority.
C17_Witness ==
  /\ mempool_out.op = "add_tx"
  /\ mempool_out.result = OkUnit
  /\ PoolSize = max_size
  /\ LET tx == mempool_out.arg[1]
         stored == mempool_txs[hash_tx(tx)]
     IN  /\ stored.transaction.signature # tx.signature
         /\ stored.priority # mempool_out.arg[2]

\* The step is add_tx of a transaction whose content is not pooled.
AddsNew ==
  /\ mempool_out'.op = "add_tx"
  /\ hash_tx(mempool_out'.arg[1]) \notin DOMAIN mempool_txs

\* C18: when the pool holds max_size transactions, add_tx of a transaction
\* not yet pooled fails with the mempool-full error whatever its priority,
\* evicts nothing and leaves the pool unchanged; remove_included of a pooled
\* transaction frees a slot, and with a free slot the same add_tx succeeds
\* and pools the transaction with its priority.
C18_FullPoolRefusesNew ==
  [][/\ (AddsNew /\ PoolSize >= max_size)
          => /\ mempool_out'.result = ErrMempoolFull
             /\ UNCHANGED <<mempool_txs, queue>>
     /\ (AddsNew /\ PoolSize < max_size)
          => /\ mempool_out'.result = OkUnit
             /\ PoolSize' = PoolSize + 1
             /\ mempool_txs'[hash_tx(mempool_out'.arg[1])] =
                  [transaction |-> mempool_out'.arg[1],
                   priority |-> mempool_out'.arg[2]]
     /\ (/\ mempool_out'.op = "remove_included"
         /\ \E i \in 1..Len(mempool_out'.arg[1]) :
              hash_tx(mempool_out'.arg[1][i]) \in DOMAIN mempool_txs)
          => PoolSize' < PoolSize]_vars

\* An add_tx refused by the full pool succeeded when repeated after
\* remove_included.
C18_Witness ==
  /\ retry.stage = "added"
  /\ mempool_out.op = "add_tx"
  /\ mempool_out.arg = retry.sub
  /\ mempool_out.result = OkUnit
  /\ PoolSize = max_size

\* The transactions given to the remove_included of the step.
Removed == mempool_out'.arg[1]

\* C19: after remove_included(T) no transaction of T is pooled, and top(n)
\* returns pooled transactions only, so that none of T is returned until it
\* is added again; a remove_included of transactions that are not pooled
\* changes neither the pooled set nor what top(n) returns, for any n.
C19_RemovedStayOut ==
  [][/\ mempool_out'.op = "remove_included" =>
          \A i \in 1..Len(Removed) :
            hash_tx(Removed[i]) \notin DOMAIN mempool_txs'
     /\ \A n \in 0..MaxQueue :
          LET r == Top(mempool_txs', queue', n)
          IN  \A i \in 1..Len(r) : hash_tx(r[i]) \in DOMAIN mempool_txs'
     /\ (/\ mempool_out'.op = "remove_included"
         /\ \A i \in 1..Len(Removed) :
              hash_tx(Removed[i]) \notin DOMAIN mempool_txs)
          => /\ mempool_txs' = mempool_txs
             /\ \A n \in 0..MaxQueue :
                  Top(mempool_txs', queue', n) = Top(mempool_txs, queue, n)]_vars

\* The positions of the queue that hold an entry of content hash h.
EntriesOf(h) == {i \in 1..Len(queue) : hash_tx(queue[i].transaction) = h}

\* C20: the lookup table and the ordering structure hold exactly the same
\* transactions: every content hash of the table has exactly one entry in
\* the queue, every entry of the queue is the table's entry of its hash, and
\* top(n) returns no transaction twice.
C20_TableMatchesQueue ==
  /\ \A h \in DOMAIN mempool_txs : Cardinality(EntriesOf(h)) = 1
  /\ \A i \in 1..Len(queue) :
       /\ hash_tx(queue[i].transaction) \in DOMAIN mempool_txs
       /\ mempool_txs[hash_tx(queue[i].transaction)] = queue[i]
  /\ \A n \in 0..MaxQueue :
       LET r == Top(mempool_txs, queue, n)
       IN  \A i, j \in 1..Len(r) : r[i] = r[j] => i = j

\* C21: remove_included matches by content hash: after it, no given
\* transaction's (sender, nonce, payload) has an entry in the table or in
\* the queue, whatever signature the given copy carries.
C21_RemoveMatchesByContent ==
  mempool_out.op = "remove_included" =>
    \A i \in 1..Len(mempool_out.arg[1]) :
      LET h == hash_tx(mempool_out.arg[1][i])
      IN  /\ h \notin DOMAIN mempool_txs
          /\ \A j \in 1..Len(queue) : hash_tx(queue[j].transaction) # h

\* Mempool::add_tx run alone on the table and the heap: what it leaves and
\* what it returns.
AddTx(table, data, max, tx, priority) ==
  LET tx_hash == hash_tx(tx)
      mempool_tx == [transaction |-> tx, priority |-> priority]
  IN  IF tx_hash \in DOMAIN table
      THEN [mempool_txs |-> table, queue |-> data, result |-> OkUnit]
      ELSE IF Cardinality(DOMAIN table) >= max
      THEN [mempool_txs |-> table, queue |-> data, result |-> ErrMempoolFull]
      ELSE [mempool_txs |-> MapInsert(table, tx_hash, mempool_tx),
            queue |-> push(data, mempool_tx), result |-> OkUnit]

\* Thread t returns from its call in this step.
Completes(t) == th[t].pc # "idle" /\ th'[t].pc = "idle"

\* The transactions with an entry in the heap array data.
QueuedIn(data) == {data[i].transaction : i \in 1..Len(data)}

C23_TopIsPurePeek ==
  [][mempool_out'.op = "get_top" =>
       /\ UNCHANGED <<mempool_txs, queue, max_size>>
       /\ Len(mempool_out'.result) <= mempool_out'.arg[1]
       /\ Len(mempool_out'.result) <= Cardinality(DOMAIN mempool_txs)
    ]_vars

\* C23, the frame alone: the step of get_top leaves the pool as it was.
C23_TopLeavesPool ==
  [][mempool_out'.op = "get_top" =>
       /\ UNCHANGED <<mempool_txs, queue, max_size>>
       /\ Len(mempool_out'.result) <= mempool_out'.arg[1]
    ]_vars

\* Blocks that differ from Block1 in one field each.
BlockVariants ==
  {[Block1 EXCEPT !.height = 2],
   [Block1 EXCEPT !.parent_hash = <<1>>],
   [Block1 EXCEPT !.transactions =
      <<[sender |-> <<7>>, nonce |-> 1, payload |-> <<>>,
         signature |-> <<0>>]>>],
   [Block1 EXCEPT !.state_root = <<1>>],
   [Block1 EXCEPT !.proposer_sig = <<1>>],
   [Block1 EXCEPT !.producer_id = "p2"]}

\* C24: Block.hash() covers every field of the block, so a vote that
\* add_vote records was computed over the current block and over no block
\* that differs from it in height, parent_hash, a transaction, state_root,
\* proposer_sig or producer_id.
C24_HashCoversAllFields ==
  VoteRecorded =>
    \A b \in Blocks \cup BlockVariants :
      out.arg[1].block_hash = Hash(b) => b = current_block[1]

\* C25: voting_state changes only from Inactive to Active and from Completed
\* to Active, when the actor applies StartVoting, and from Active to
\* Completed, when it applies a vote and answers Ok; so it never goes back to
\* Inactive nor from Inactive to Completed, and no query, no feedback
\* operation and no call that fails changes it.
C25_StateChangesAlongLifecycle ==
  [][/\ voting_state' # voting_state =>
          \/ /\ Takes("StartVoting")
             /\ voting_state \in {"Inactive", "Completed"}
             /\ voting_state' = "Active"
          \/ /\ Takes("Vote")
             /\ voting_state = "Active"
             /\ voting_state' = "Completed"
             /\ out'.op = "add_vote"
             /\ out'.result \in {OkTrue, OkFalse}
     /\ out' # out /\ out'.result # <<>> /\ out'.result[1] = "Err" =>
          UNCHANGED voting_state
    ]_vars

\* A round was completed and the next StartVoting made the state Active
\* again.
C25_Witness ==
  /\ out.op = "StartVoting"
  /\ pre_state = "Completed"
  /\ voting_state = "Active"

\* C26: in no tally that add_vote computes do the approving stake and the
\* rejecting stake both reach the threshold stake.
C26_OneSideAtMost ==
  VoteRecorded => ~(tally[1] >= Threshold /\ tally[2] >= Threshold)

\* C26 for validators whose stakes add up to total_stake.
C26_OneSideAtMostOfTotal ==
  /\ VoteRecorded
  /\ stake_of["v1"] <= total_stake
  /\ stake_of["v2"] <= total_stake - stake_of["v1"]
  /\ stake_of["v3"] = total_stake - stake_of["v1"] - stake_of["v2"]
  => ~(tally[1] >= Threshold /\ tally[2] >= Threshold)

\* The arrival orders of one vote by each agent of the set agents.
ArrivalOrders(agents) ==
  {o \in [1..Cardinality(agents) -> agents] :
     \A i, j \in 1..Cardinality(agents) : o[i] = o[j] => i = j}

RECURSIVE Resolve(_, _)
\* The verdict of the round when the recorded votes of the agents arrive in
\* the given order, each with its agent's stake, on the votes vs that arrived
\* before: the first Ok that process_vote answers, or none.
Resolve(vs, order) ==
  IF order = <<>> THEN <<>>
  ELSE LET a == Head(order)
           r == ProcessVote(vs, "Active", current_block, votes[a],
                            stake_of[a], total_stake, finality_threshold)
       IN  IF r.result[1] = "Ok" THEN r.result
           ELSE Resolve(r.votes, Tail(order))

\* C27: the verdict does not depend on the order in which the votes of
\* distinct agents arrive: of the votes recorded, one per agent, every two
\* arrival orders that resolve the round resolve it with the same verdict.
C27_VerdictIndependentOfOrder ==
  current_block # <<>> =>
    \A o1, o2 \in ArrivalOrders(DOMAIN votes) :
      LET r1 == Resolve(EmptyMap, o1)
          r2 == Resolve(EmptyMap, o2)
      IN  r1 # <<>> /\ r2 # <<>> => r1 = r2

\* The state the actor task owns, as one value.
ActorState ==
  [current_block |-> current_block, votes |-> votes,
   voting_state |-> voting_state, validator_feedback |-> validator_feedback]

\* The match arm of the actor loop for msg on the state s of a manager with
\* the given total stake and threshold: the state it leaves and what it
\* sends back.
Apply(s, msg, total, threshold) ==
  CASE msg.type = "StartVoting" ->
         [state |-> [s EXCEPT !.current_block = msg.arg,
                              !.votes = EmptyMap,
                              !.voting_state = "Active"],
          result |-> <<>>]
    [] msg.type = "Vote" ->
         LET r == ProcessVote(s.votes, s.voting_state, s.current_block,
                              msg.arg[1], msg.arg[2], total, threshold)
         IN  [state |-> [s EXCEPT !.votes = r.votes,
                                  !.voting_state = r.voting_state],
              result |-> r.result]
    [] msg.type = "GetCurrentBlock" ->
         [state |-> s, result |-> <<"Some", s.current_block>>]
    [] msg.type = "GetVotes" ->
         [state |-> s, result |-> <<"Map", s.votes>>]
    [] msg.type = "StoreFeedback" ->
         LET p == msg.arg[1]
         IN  [state |-> [s EXCEPT !.validator_feedback =
                           MapInsert(@, p,
                                     Append(FeedbackIn(@, p), msg.arg[2]))],
              result |-> <<>>]
    [] msg.type = "GetAndClearFeedback" ->
         LET p == msg.arg[1]
         IN  [state |-> [s EXCEPT !.validator_feedback = MapRemove(@, p)],
              result |-> FeedbackIn(s.validator_feedback, p)]

ApproveLeadsOf300 ==
  /\ VoteRecorded
  /\ total_stake = 300
  /\ finality_threshold = 67
  /\ tally[1] > tally[2]

\* C29, as stated: for total_stake 300 and threshold 0.67 the threshold stake
\* is 202, so approve tallies of 200 and of 201 both yield InsufficientStake.
C29_ThresholdIs202 ==
  ApproveLeadsOf300 =>
    /\ Threshold = 202
    /\ tally[1] \in {200, 201} => out.result = ErrInsufficientStake

\* C29, amended: for total_stake 300 and threshold 0.67 the threshold stake
\* is 201, so an approve tally of 200 yields InsufficientStake and an approve
\* tally of 201 yields Ok(true).
C29_ThresholdIs201 ==
  ApproveLeadsOf300 =>
    /\ Threshold = 201
    /\ tally[1] = 200 => out.result = ErrInsufficientStake
    /\ tally[1] = 201 => out.result = OkTrue

\* An add_vote whose approve tally is exactly 201 resolved the round.
C29_Witness ==
  ApproveLeadsOf300 /\ tally[1] = 201 /\ out.result = OkTrue

\* An add_vote whose approve tally is exactly 200 left the round open.
C29_Witness200 ==
  ApproveLeadsOf300 /\ tally[1] = 200 /\ out.result = ErrInsufficientStake

\* t is the sum of n stakes, or u64::MAX where the sum passes it.
SumOrMax(n, stake, t) ==
  IF n = 0 THEN t = 0
  ELSE IF stake > U64_MAX \div n THEN t = U64_MAX
  ELSE t = n * stake

\* The sum of n stakes is at least the threshold stake.
SumReaches(n, stake, threshold_stake) ==
  n > 0 /\ stake >= (threshold_stake + n - 1) \div n

\* C30: the tallies are accumulated with saturating addition: a tally is the
\* sum of the stakes added, or u64::MAX when that sum exceeds u64::MAX, never
\* a wrapped value, so add_vote does not answer InsufficientStake when the
\* sum of a side is at or above the threshold stake.
C30_TalliesSaturate ==
  VoteRecorded =>
    LET stake == out.arg[2]
        n_approve == Cardinality(Approvers)
        n_reject == Cardinality(Rejecters)
    IN  /\ SumOrMax(n_approve, stake, tally[1])
        /\ SumOrMax(n_reject, stake, tally[2])
        /\ SumReaches(n_approve, stake, Threshold)
             \/ SumReaches(n_reject, stake, Threshold)
           => out.result # ErrInsufficientStake

\* A sum of approving stakes passed u64::MAX, the tally is u64::MAX and the
\* round is resolved.
C30_Witness ==
  /\ VoteRecorded
  /\ out.arg[2] < U64_MAX
  /\ Cardinality(Approvers) > 1
  /\ out.arg[2] > U64_MAX \div Cardinality(Approvers)
  /\ tally[1] = U64_MAX
  /\ out.result = OkTrue

\* C31: add_vote answers Ok(true) only when a recorded vote approves and
\* Ok(false) only when a recorded vote rejects, whatever total_stake and
\* finality_threshold are, a threshold stake of 0 included.
C31_VerdictHasAVoteBehindIt ==
  VoteRecorded =>
    /\ out.result = OkTrue => Approvers # {}
    /\ out.result = OkFalse => Rejecters # {}

\* C32: in every reachable state every vote of the vote map carries the hash
\* of the current block, so get_votes returns no vote of an earlier round's
\* block beside a newer current block.
C32_VotesAreForCurrentBlock ==
  \A a \in DOMAIN votes :
    /\ current_block # <<>>
    /\ votes[a].block_hash = Hash(current_block[1])

\* A round on Block2 holds recorded votes, and a vote that carries the hash
\* of Block1 was just refused.
C32_Witness ==
  /\ current_block = <<Block2>>
  /\ votes # EmptyMap
  /\ out.op = "add_vote"
  /\ out.arg[1].block_hash = Hash(Block1)
  /\ out.result = ErrWrongBlock

\* C33: in every reachable state, Inactive implies no current block and an
\* empty vote map, Active or Completed implies a current block, and
\* Completed implies a vote map that is not empty.
C33_StateMatchesRound ==
  /\ voting_state = "Inactive" => current_block = <<>> /\ votes = EmptyMap
  /\ voting_state \in {"Active", "Completed"} => current_block # <<>>
  /\ voting_state = "Completed" => votes # EmptyMap

\* A round was completed by its first vote.
C33_Witness ==
  /\ voting_state = "Completed"
  /\ out.op = "add_vote"
  /\ Cardinality(DOMAIN votes) = 1
  /\ current_block = <<Block1>>

\* C34: once a round is Completed the vote map holds the deciding vote, and
\* until the actor applies the next StartVoting no step changes the block,
\* the vote map or the state, be it a later add_vote, a store_feedback or a
\* get_and_clear_feedback; get_current_block and get_votes answer with that
\* block and that map.
C34_CompletedRoundIsFrozen ==
  [][/\ voting_state = "Active" /\ voting_state' = "Completed" =>
          /\ out'.op = "add_vote"
          /\ out'.arg[1].agent_id \in DOMAIN votes'
          /\ votes'[out'.arg[1].agent_id] = out'.arg[1]
          /\ UNCHANGED current_block
     /\ voting_state = "Completed" /\ ~Takes("StartVoting") =>
          /\ UNCHANGED <<current_block, votes, voting_state>>
          /\ Takes("GetCurrentBlock") =>
               out'.result = <<"Some", current_block>>
          /\ Takes("GetVotes") => out'.result = <<"Map", votes>>
    ]_vars

\* A vote of an agent that had not voted was refused by the completed round,
\* whose vote map is as the deciding vote left it.
C34_Witness ==
  /\ voting_state = "Completed"
  /\ out.op = "add_vote"
  /\ out.result = ErrNoActiveRound
  /\ out.arg[1].block_hash = Hash(current_block[1])
  /\ out.arg[1].agent_id \notin DOMAIN votes

\* C35: the requests of one caller are applied in the order it sent them:
\* when start_voting_round(b) has returned Ok to a caller and no other
\* caller has sent a request before the caller's next one, the actor takes
\* that request after StartVoting(b), and answers get_current_block with b,
\* get_votes with the empty map, and add_vote for the hash of b with
\* neither NoActiveRound nor WrongBlock.
C35_OwnRequestsInOrder ==
  [][session.stage = "asked" /\ session.at = 1 /\ Len(mailbox') < Len(mailbox)
       => LET m == Head(mailbox)
          IN  /\ m.type \in {"Vote", "GetCurrentBlock", "GetVotes"}
              /\ m.type = "GetCurrentBlock" =>
                   out'.result = <<"Some", session.block>>
              /\ m.type = "GetVotes" => out'.result = <<"Map", EmptyMap>>
              /\ m.type = "Vote" =>
                   /\ m.arg[1].block_hash = Hash(session.block[1])
                   /\ out'.result \notin {ErrNoActiveRound, ErrWrongBlock}
    ]_vars

\* The caller's get_current_block is queued behind its StartVoting(b), which
\* the actor has not applied yet: the current block is still another one.
C35_Witness ==
  /\ session.stage = "asked"
  /\ session.at = 2
  /\ mailbox[1] = Msg("StartVoting", session.block)
  /\ mailbox[2].type = "GetCurrentBlock"
  /\ current_block # session.block
  /\ current_block # <<>>

\* C36: after every sequence of mempool operations the table and the heap
\* hold at most max_size entries each.
C36_SizesWithinCapacity ==
  /\ Cardinality(DOMAIN mempool_txs) <= max_size
  /\ Len(queue) <= max_size

\* C36, the table alone.
C36_TableWithinCapacity == Cardinality(DOMAIN mempool_txs) <= max_size

\* C37: concurrent add_tx, get_top and remove_included calls on one mempool
\* never deadlock: whoever holds the lock of the heap holds the lock of the
\* table, a thread between calls holds no lock, and under fair scheduling
\* every call that was made returns.
C37_EveryCallReturns ==
  /\ [](\A t \in Threads :
          /\ (queue_lock.writer = t \/ t \in queue_lock.readers)
               => (txs_lock.writer = t \/ t \in txs_lock.readers)
          /\ th[t].pc = "idle"
               => /\ txs_lock.writer # t /\ t \notin txs_lock.readers
                  /\ queue_lock.writer # t /\ t \notin queue_lock.readers)
  /\ \A t \in Threads : (th[t].pc # "idle") ~> (th[t].pc = "idle")

\* A call waits for the lock of the table while another call holds both
\* locks.
C37_Witness ==
  \E t, u \in Threads :
    /\ t # u
    /\ th[t].pc = "lock_txs"
    /\ txs_lock.writer = u
    /\ queue_lock.writer = u
    /\ th[u].pc = "retain"

====
